---- MODULE Spec2Model ----
(***************************************************************************)
(* Weekly return-rate rollup (percent_return/processor.py) and the merge   *)
(* of an upload's weekly table into the master history (app.py, the live   *)
(* script of lines 599-887; lines 80-598 follow a return statement inside  *)
(* compute_previous_month_summary and never run).                          *)
(*                                                                         *)
(* Numbers: pandas floats are kept as exact fixed-point integers, one unit *)
(* = 0.01 (a percentage of 50.0 is 5000, an MTTR of 30.5 h is 3050).  An   *)
(* absent cell (NaN / pd.NA) is NA.                                        *)
(***************************************************************************)
EXTENDS Integers, Sequences, FiniteSets, TLC

VARIABLES
    master,              \* the file data/master_weeks.csv
    latest_df,           \* st.session_state['latest_df'] (df_weekly)
    latest_overlapping,  \* st.session_state['latest_overlapping']
    master_df,           \* master_df as loaded by the last script run
    overwrite_weeks,     \* overwrite_weeks of the last script run
    last,                \* the handler the last script run executed
    sessions,            \* browser sessions that share the data directory
    columns,             \* the column names of the table handed to compute_metrics
    raw,                 \* the rows of the table handed to compute_metrics
    fields,              \* the source column of each required field (lines 33-53)
    normalized,          \* compute_metrics' local df, once normalized (line 95)
    grouped_asset_day,   \* compute_metrics' local grouped_asset_day
    daily,               \* compute_metrics' local daily
    result               \* what compute_metrics returned, or that it raised

vars == <<master, latest_df, latest_overlapping, master_df, overwrite_weeks,
          last, sessions, columns, raw, fields, normalized, grouped_asset_day, daily,
          result>>

appVars == <<master, latest_df, latest_overlapping, master_df,
             overwrite_weeks, last, sessions>>

aggVars == <<columns, raw, fields, normalized, grouped_asset_day, daily, result>>

(***************************************************************************)
(* Bounds of the model and constants of the program.                       *)
(***************************************************************************)
\* The weeks of the master history and of an upload's table as app.py merges
\* them: range(1, 53) there, 1..NumWeeks here.
NumWeeks == 2

\* An absent cell: NaN, pd.NA, an empty CSV field once read.
NA == -1

Weeks == 1..NumWeeks

(***************************************************************************)
(* Tables.  A DataFrame with a Week column is a sequence of rows; after    *)
(* set_index('Week') it is a function from the index labels to the other   *)
(* five columns (the labels of every table handled here are distinct).     *)
(***************************************************************************)
Row(w, ret, mttr, vol, p24, p48) ==
    [Week |-> w, WeeklyReturn |-> ret, MTTR |-> mttr, WOVolume |-> vol,
     Pct24 |-> p24, Pct48 |-> p48]

Cols(r) ==
    [WeeklyReturn |-> r.WeeklyReturn, MTTR |-> r.MTTR, WOVolume |-> r.WOVolume,
     Pct24 |-> r.Pct24, Pct48 |-> r.Pct48]

WithWeek(w, c) == Row(w, c.WeeklyReturn, c.MTTR, c.WOVolume, c.Pct24, c.Pct48)

\* A week without qualifying work in compute_metrics' output.
ZeroRow(w) == Row(w, 0, NA, 0, NA, NA)

NoFrame == [loaded |-> FALSE, rows |-> <<>>]

Frame(rows) == [loaded |-> TRUE, rows |-> rows]

RECURSIVE IndexFrom(_, _)
IndexFrom(rows, i) ==
    IF i > Len(rows) THEN <<>>
    ELSE (rows[i].Week :> Cols(rows[i])) @@ IndexFrom(rows, i + 1)

\* df.set_index('Week')
SetIndex(rows) == IndexFrom(rows, 1)

RECURSIVE Ascending(_, _)
\* The labels of S from k upwards, in ascending order.
Ascending(S, k) ==
    IF S = {} THEN <<>>
    ELSE IF k \in S THEN <<k>> \o Ascending(S \ {k}, k + 1)
    ELSE Ascending(S, k + 1)

\* A set of week labels (none below 0 in this model) as a sorted list.
SortedSeq(S) == Ascending(S, 0)

\* m.reset_index().sort_values('Week')
ResetIndexSorted(m) ==
    LET order == SortedSeq(DOMAIN m)
    IN  [i \in 1..Len(order) |-> WithWeek(order[i], m[order[i]])]

\* m.loc[wk] = row: replaces the row labelled wk, or appends it.
LocSet(m, wk, c) ==
    IF wk \in DOMAIN m THEN [m EXCEPT ![wk] = c] ELSE (wk :> c) @@ m

(***************************************************************************)
(* The master file.  A CSV field is <<>> when empty and <<v>> otherwise.   *)
(***************************************************************************)
NoFile == [exists |-> FALSE, lines |-> <<>>]

\* An absent value written as 0 (a fillna(0) before the save).
CellZeroFilled(v) == IF v = NA THEN <<0>> ELSE <<v>>

\* A value as a CSV field: NaN is written as the empty field.
Cell(v) == IF v = NA THEN <<>> ELSE <<v>>

Value(c) == IF c = <<>> THEN NA ELSE c[1]

CsvLine(r) ==
    [Week |-> Cell(r.Week), WeeklyReturn |-> Cell(r.WeeklyReturn),
     MTTR |-> Cell(r.MTTR), WOVolume |-> Cell(r.WOVolume),
     Pct24 |-> Cell(r.Pct24), Pct48 |-> Cell(r.Pct48)]

\* df.to_csv(master_path, index=False)
ToCsv(rows) == [exists |-> TRUE, lines |-> [i \in 1..Len(rows) |-> CsvLine(rows[i])]]

ParseLine(l) ==
    Row(Value(l.Week), Value(l.WeeklyReturn), Value(l.MTTR), Value(l.WOVolume),
        Value(l.Pct24), Value(l.Pct48))

\* pd.read_csv(master_path) if master_path.exists() else None
ReadCsv(file) ==
    IF file.exists
    THEN Frame([i \in 1..Len(file.lines) |-> ParseLine(file.lines[i])])
    ELSE NoFrame

\* master_df['Week'].astype(int) raises on a Week that is not a number.
WeekCastFails(df) == df.loaded /\ \E i \in 1..Len(df.rows) : df.rows[i].Week = NA

(***************************************************************************)
(* The script run of app.py, lines 621-835.  Streamlit runs the script     *)
(* from the top on every interaction, so every run with a file in the      *)
(* uploader first redoes the upload block (lines 623-662).                 *)
(***************************************************************************)
\* The volume filter as >= 0.
NonNegative(rows) == {rows[i].Week : i \in {j \in 1..Len(rows) : rows[j].WOVolume >= 0}}

\* Weeks of the rows with WO Volume > 0 (NaN > 0 is False).
NonZero(rows) == {rows[i].Week : i \in {j \in 1..Len(rows) : rows[j].WOVolume > 0}}

\* overlapping, lines 650-655.
Overlapping(mdf, df) ==
    IF mdf.loaded THEN NonZero(df.rows) \cap NonZero(mdf.rows) ELSE {}

RECURSIVE EnsureAllWeeks(_, _, _)
\* "ensure master has all weeks", lines 723-729 and 776-781.  The blank row
\* [wk] + [pd.NA] * (len(master_df.columns) - 1) has one value more than m has
\* columns, and pandas refuses it (ValueError): err.
EnsureAllWeeks(st, n, wk) ==
    IF st.err \/ wk > NumWeeks THEN st
    ELSE IF wk \in DOMAIN st.m THEN EnsureAllWeeks(st, n, wk + 1)
    ELSE IF wk \in DOMAIN n
         THEN EnsureAllWeeks([st EXCEPT !.m = LocSet(st.m, wk, n[wk])], n, wk + 1)
         ELSE [st EXCEPT !.err = TRUE]

\* The volume test off by one: > 1.
TakesNewAboveOne(c) == IF c.WOVolume = NA THEN TRUE ELSE c.WOVolume > 1

\* The volume test as >= 0: a zero row of the upload replaces the master's.
TakesNewFromZero(c) == IF c.WOVolume = NA THEN TRUE ELSE c.WOVolume >= 0

\* No volume test: every row of the upload replaces the master's.
TakesNewAlways(c) == TRUE

\* int(n.loc[wk, 'WO Volume']) > 0, and the except branch that prefers the new row.
TakesNew(c) == IF c.WOVolume = NA THEN TRUE ELSE c.WOVolume > 0

RECURSIVE ReplaceNonZero(_, _, _, _)
\* "apply replacements where new has volume > 0", lines 731-736.
ReplaceNonZero(m, n, order, i) ==
    IF i > Len(order) THEN m
    ELSE LET wk == order[i]
         IN  ReplaceNonZero(IF TakesNew(n[wk]) THEN LocSet(m, wk, n[wk]) ELSE m,
                            n, order, i + 1)

RECURSIVE ReplaceSelected(_, _, _, _)
\* "replace selected weeks", lines 783-785.
ReplaceSelected(m, n, selected, i) ==
    IF i > Len(selected) THEN m
    ELSE LET wk == selected[i]
         IN  ReplaceSelected(IF wk \in DOMAIN n THEN LocSet(m, wk, n[wk]) ELSE m,
                             n, selected, i + 1)

\* The skip of line 789 left out.
PreservedNever(wk, overlapping, selected) == FALSE

\* The skip applied to the weeks outside the overlap set instead.
PreservedOutsideOverlap(wk, overlapping, selected) == wk \notin overlapping

\* Line 789: an overlapping week the user did not select is skipped.
Preserved(wk, overlapping, selected) == wk \in overlapping /\ wk \notin selected

RECURSIVE BringInNew(_, _, _, _, _, _)
\* "Always bring in new weeks where WO Volume > 0, EXCEPT overlapping weeks the
\* user chose NOT to overwrite", lines 788-797.
BringInNew(m, n, order, i, overlapping, selected) ==
    IF i > Len(order) THEN m
    ELSE LET wk == order[i]
         IN  BringInNew(IF ~Preserved(wk, overlapping, selected) /\ TakesNew(n[wk])
                        THEN LocSet(m, wk, n[wk]) ELSE m,
                        n, order, i + 1, overlapping, selected)

\* n.index: the Week column of df_weekly in row order.
IndexOrder(rows) == [i \in 1..Len(rows) |-> rows[i].Week]

\* 'Merge and save (no overlaps)', lines 720-739: the table written, or err.
MergeNoOverlaps(mrows, nrows) ==
    LET n  == SetIndex(nrows)
        s1 == EnsureAllWeeks([err |-> FALSE, m |-> SetIndex(mrows)], n, 1)
    IN  IF s1.err THEN [err |-> TRUE, rows |-> <<>>]
        ELSE [err |-> FALSE,
              rows |-> ResetIndexSorted(ReplaceNonZero(s1.m, n, IndexOrder(nrows), 1))]

\* 'Apply merge & save', lines 773-799: the table written, or err.
ApplyMerge(mrows, nrows, overlapping, selected) ==
    LET n  == SetIndex(nrows)
        s1 == EnsureAllWeeks([err |-> FALSE, m |-> SetIndex(mrows)], n, 1)
    IN  IF s1.err THEN [err |-> TRUE, rows |-> <<>>]
        ELSE LET m2 == ReplaceSelected(s1.m, n, SortedSeq(selected), 1)
             IN  [err |-> FALSE,
                  rows |-> ResetIndexSorted(
                      BringInNew(m2, n, IndexOrder(nrows), 1, overlapping, selected))]

(***************************************************************************)
(* Inputs.  What process_file returns for an upload: a dense table, one    *)
(* row per week in ascending order, ZeroRow where the upload has no work   *)
(* order.  An active week is one of two sample rows: "a", one work order   *)
(* closed in 12 h and no return, or "b", two work orders (13 h and 48 h)   *)
(* on a day with a 50 % return rate.                                       *)
(***************************************************************************)
Contents == {"zero", "a", "b"}

SampleRow(w, c) ==
    IF c = "a" THEN Row(w, 0, 1200, 1, 10000, 10000)
    ELSE IF c = "b" THEN Row(w, 5000, 3050, 2, 5000, 10000)
    ELSE ZeroRow(w)

WeeklyTable(pick) == [w \in Weeks |-> SampleRow(w, pick[w])]

UploadTables == {WeeklyTable(pick) : pick \in [Weeks -> Contents]}

(***************************************************************************)
(* One action per script run.                                              *)
(***************************************************************************)
\* The buttons the last run drew: a click reaches a handler only if the run
\* before drew its button and this run reaches it again.
Rendered ==
    IF ~latest_df.loaded \/ last = "failed" THEN "none"
    ELSE IF ~master_df.loaded THEN "save"
    ELSE IF latest_overlapping = {} THEN "merge"
    ELSE "apply"

\* A file is put in the uploader (or the page is refreshed with it): lines
\* 623-662, no button pressed.  A master whose Week does not cast to int makes
\* line 648 raise after latest_df is stored.
Upload(rows) ==
    LET mdf == ReadCsv(master)
    IN  /\ latest_df' = Frame(rows)
        /\ IF WeekCastFails(mdf)
           THEN /\ last' = "failed"
                /\ UNCHANGED <<latest_overlapping, master_df>>
           ELSE /\ last' = "upload"
                /\ latest_overlapping' = Overlapping(mdf, Frame(rows))
                /\ master_df' = mdf
        /\ overwrite_weeks' = {}
        /\ UNCHANGED master
        /\ UNCHANGED aggVars
        /\ UNCHANGED sessions

\* 'Save as master and finalize', lines 686-696.
SaveAsMaster ==
    /\ Rendered = "save"
    /\ ~master.exists
    /\ master' = ToCsv(latest_df.rows)
    /\ latest_overlapping' = {}
    /\ master_df' = NoFrame
    /\ overwrite_weeks' = {}
    /\ last' = "save"
    /\ UNCHANGED latest_df
    /\ UNCHANGED aggVars
    /\ UNCHANGED sessions

\* 'Merge and save (no overlaps)', lines 716-740.
MergeAndSave ==
    LET mdf == ReadCsv(master)
        res == MergeNoOverlaps(mdf.rows, latest_df.rows)
    IN  /\ Rendered = "merge"
        /\ master.exists
        /\ ~WeekCastFails(mdf)
        /\ Overlapping(mdf, latest_df) = {}
        /\ latest_overlapping' = {}
        /\ master_df' = mdf
        /\ overwrite_weeks' = {}
        /\ IF res.err
           THEN last' = "error" /\ UNCHANGED master
           ELSE last' = "merge" /\ master' = ToCsv(res.rows)
        /\ UNCHANGED latest_df
        /\ UNCHANGED aggVars
        /\ UNCHANGED sessions

\* 'Apply merge & save', lines 766-800, with the weeks chosen in the multiselect
\* (or all of them, 'Overwrite all overlapping weeks').
ApplyMergeAndSave(selected) ==
    LET mdf == ReadCsv(master)
        overlapping == Overlapping(mdf, latest_df)
        res == ApplyMerge(mdf.rows, latest_df.rows, overlapping, selected)
    IN  /\ Rendered = "apply"
        /\ master.exists
        /\ ~WeekCastFails(mdf)
        /\ overlapping # {}
        /\ selected \subseteq overlapping
        /\ latest_overlapping' = overlapping
        /\ master_df' = mdf
        /\ overwrite_weeks' = selected
        /\ IF res.err
           THEN last' = "error" /\ UNCHANGED master
           ELSE last' = "apply" /\ master' = ToCsv(res.rows)
        /\ UNCHANGED latest_df
        /\ UNCHANGED aggVars
        /\ UNCHANGED sessions

\* 'Clear all history and start over', lines 846-858: every file of the data
\* directory is deleted.
ClearAll ==
    LET mdf == ReadCsv(master)
    IN  /\ latest_df.loaded
        /\ last # "failed"
        /\ master.exists
        /\ ~WeekCastFails(mdf)
        /\ master' = NoFile
        /\ latest_overlapping' = Overlapping(mdf, latest_df)
        /\ master_df' = mdf
        /\ overwrite_weeks' = {}
        /\ last' = "clear"
        /\ UNCHANGED latest_df
        /\ UNCHANGED aggVars
        /\ UNCHANGED sessions

InitSession ==
    /\ sessions = <<>>
    /\ latest_df = NoFrame
    /\ latest_overlapping = {}
    /\ master_df = NoFrame
    /\ overwrite_weeks = {}
    /\ last = "none"

\* compute_metrics has not been called.
NotRun == [status |-> "none", rows |-> <<>>]

NoCall ==
    /\ columns = <<>>
    /\ raw = <<>>
    /\ fields = <<>>
    /\ normalized = <<>>
    /\ grouped_asset_day = <<>>
    /\ daily = <<>>
    /\ result = NotRun

\* A fresh data directory.
Init == master = NoFile /\ InitSession /\ NoCall

Next ==
    \/ \E rows \in UploadTables : Upload(rows)
    \/ SaveAsMaster
    \/ MergeAndSave
    \/ \E selected \in SUBSET Weeks : ApplyMergeAndSave(selected)
    \/ ClearAll

Spec == Init /\ [][Next]_vars

(***************************************************************************)
(* A data directory that already holds a master file when the session      *)
(* starts.  Each week's line is missing or holds a sample row; the file may *)
(* also hold a line for Week 0, and one sample file has a line whose Week  *)
(* field is empty.                                                          *)
(***************************************************************************)
FileContents == Contents \cup {"missing"}

RECURSIVE LinesFrom(_, _)
LinesFrom(pick, w) ==
    IF w > NumWeeks THEN <<>>
    ELSE (IF pick[w] = "missing" THEN <<>> ELSE <<CsvLine(SampleRow(w, pick[w]))>>)
         \o LinesFrom(pick, w + 1)

WeekZeroLine == CsvLine(SampleRow(0, "a"))

NoWeekLine == [CsvLine(SampleRow(1, "a")) EXCEPT !.Week = <<>>]

PreexistingFiles ==
    {[exists |-> TRUE, lines |-> LinesFrom(pick, 1)] : pick \in [Weeks -> FileContents]}
    \cup {[exists |-> TRUE, lines |-> <<WeekZeroLine>> \o LinesFrom(pick, 1)] :
            pick \in [Weeks -> FileContents]}
    \cup {[exists |-> TRUE, lines |-> <<NoWeekLine>>]}

InitFile == master \in PreexistingFiles /\ InitSession /\ NoCall

SpecFile == InitFile /\ [][Next]_vars

(***************************************************************************)
(* The merge of lines 773-799 as the function merge(master, incoming,      *)
(* overwrite_weeks) of two dense tables and any set of weeks: the inputs   *)
(* are drawn at the start and the block is applied once.  The block is     *)
(* reached only with a non-empty overlap (line 716).                       *)
(***************************************************************************)
InitFn ==
    /\ sessions = <<>>
    /\ master_df \in {Frame(t) : t \in UploadTables}
    /\ latest_df \in {Frame(t) : t \in UploadTables}
    /\ overwrite_weeks \in SUBSET Weeks
    /\ master = ToCsv(master_df.rows)
    /\ latest_overlapping = Overlapping(master_df, latest_df)
    /\ last = "none"
    /\ NoCall

MergeCall ==
    LET res == ApplyMerge(master_df.rows, latest_df.rows, latest_overlapping,
                          overwrite_weeks)
    IN  /\ last = "none"
        /\ latest_overlapping # {}
        /\ ~res.err
        /\ master' = ToCsv(res.rows)
        /\ last' = "call"
        /\ UNCHANGED <<master_df, latest_df, latest_overlapping, overwrite_weeks>>
        /\ UNCHANGED aggVars
        /\ UNCHANGED sessions

NextFn == MergeCall

SpecFn == InitFn /\ [][NextFn]_vars

(***************************************************************************)
(* The two merge handlers with an incoming table that may lack weeks: the  *)
(* session is in the state an upload leaves, with a master file that may   *)
(* lack weeks and a weekly table in which each week is missing or holds a  *)
(* sample row.  (process_file itself returns a row for every week.)        *)
(***************************************************************************)
SparseTables ==
    {ReadCsv([exists |-> TRUE, lines |-> LinesFrom(pick, 1)]).rows :
        pick \in [Weeks -> FileContents]}

InitSparse ==
    /\ sessions = <<>>
    /\ master \in {f \in PreexistingFiles : ~WeekCastFails(ReadCsv(f))}
    /\ latest_df \in {Frame(t) : t \in SparseTables}
    /\ master_df = ReadCsv(master)
    /\ latest_overlapping = Overlapping(master_df, latest_df)
    /\ overwrite_weeks = {}
    /\ last = "upload"
    /\ NoCall

NextSparse ==
    \/ MergeAndSave
    \/ \E selected \in SUBSET Weeks : ApplyMergeAndSave(selected)

SpecSparse == InitSparse /\ [][NextSparse]_vars

(***************************************************************************)
(* Two browser sessions on the same data directory.  Each session has its  *)
(* own st.session_state and its script runs in its own thread; nothing in  *)
(* the script locks master_weeks.csv, so the file accesses of one run      *)
(* (line 642, line 674, to_csv) interleave with those of the other         *)
(* session.  A run is three steps: the upload block (lines 623-662), the   *)
(* master re-read with the merge controls (lines 674-681, 716, 766-771)    *)
(* and, when the click that started the run is on the button the run       *)
(* reaches, the merge and its to_csv.  The master exists from the start,   *)
(* written by the app, so its Week column casts to int and                 *)
(* 'Save as master' is never reached.                                      *)
(***************************************************************************)
SessionIds == {"A", "B"}

\* A session in which nothing has been uploaded.
FreshSession ==
    [latest_df |-> NoFrame, latest_overlapping |-> {}, master_df |-> NoFrame,
     drawn |-> "none", clicked |-> "none", pc |-> "idle"]

\* Lines 623-662 of a run of session s: the run is started by a new file in
\* the uploader (click "none") or by a click on the button the last run drew,
\* with the file still in the uploader.
UploadBlock(s, rows, click) ==
    LET me  == sessions[s]
        mdf == ReadCsv(master)
    IN  /\ me.pc = "idle"
        /\ click \in {"none", me.drawn}
        /\ click # "none" => rows = me.latest_df.rows
        /\ sessions' = [sessions EXCEPT ![s] =
               [me EXCEPT !.latest_df = Frame(rows),
                          !.latest_overlapping = Overlapping(mdf, Frame(rows)),
                          !.clicked = click,
                          !.pc = "uploaded"]]
        /\ UNCHANGED <<master, latest_df, latest_overlapping, master_df,
                       overwrite_weeks, last>>
        /\ UNCHANGED aggVars

\* Lines 674-681, 716 and 766-771 of the run: master_df is read again and the
\* button of the branch is drawn; st.button is True when the click was on it.
\* master_df is a local of the run: the model keeps it only while a handler
\* is to use it.
MasterRead(s) ==
    LET me      == sessions[s]
        reached == IF me.latest_overlapping = {} THEN "merge" ELSE "apply"
    IN  /\ me.pc = "uploaded"
        /\ master.exists
        /\ sessions' = [sessions EXCEPT ![s] =
               IF me.clicked = reached
               THEN [me EXCEPT !.master_df = ReadCsv(master), !.drawn = reached,
                               !.pc = "handler"]
               ELSE [me EXCEPT !.drawn = reached, !.clicked = "none", !.pc = "idle"]]
        /\ UNCHANGED <<master, latest_df, latest_overlapping, master_df,
                       overwrite_weeks, last>>
        /\ UNCHANGED aggVars

\* Lines 720-739 of the run: the merge of the master_df read at line 674, and
\* merged.to_csv(master_path).
MergeWrite(s) ==
    LET me  == sessions[s]
        res == MergeNoOverlaps(me.master_df.rows, me.latest_df.rows)
    IN  /\ me.pc = "handler"
        /\ me.clicked = "merge"
        /\ ~res.err
        /\ master' = ToCsv(res.rows)
        /\ sessions' = [sessions EXCEPT ![s] =
               [me EXCEPT !.master_df = NoFrame, !.clicked = "none", !.pc = "idle"]]
        /\ UNCHANGED <<latest_df, latest_overlapping, master_df, overwrite_weeks, last>>
        /\ UNCHANGED aggVars

\* Lines 773-799 of the run, with the weeks chosen in the multiselect.
ApplyWrite(s, selected) ==
    LET me  == sessions[s]
        res == ApplyMerge(me.master_df.rows, me.latest_df.rows,
                          me.latest_overlapping, selected)
    IN  /\ me.pc = "handler"
        /\ me.clicked = "apply"
        /\ selected \subseteq me.latest_overlapping
        /\ ~res.err
        /\ master' = ToCsv(res.rows)
        /\ sessions' = [sessions EXCEPT ![s] =
               [me EXCEPT !.master_df = NoFrame, !.clicked = "none", !.pc = "idle"]]
        /\ UNCHANGED <<latest_df, latest_overlapping, master_df, overwrite_weeks, last>>
        /\ UNCHANGED aggVars

InitSessions ==
    /\ master \in {ToCsv(t) : t \in UploadTables}
    /\ sessions = [s \in SessionIds |-> FreshSession]
    /\ latest_df = NoFrame
    /\ latest_overlapping = {}
    /\ master_df = NoFrame
    /\ overwrite_weeks = {}
    /\ last = "none"
    /\ NoCall

NextSessions ==
    \E s \in SessionIds :
        \/ \E rows \in UploadTables : \E click \in {"none", "merge", "apply"} :
               UploadBlock(s, rows, click)
        \/ MasterRead(s)
        \/ MergeWrite(s)
        \/ \E selected \in SUBSET Weeks : ApplyWrite(s, selected)

SpecSessions == InitSessions /\ [][NextSessions]_vars

(***************************************************************************)
(* percent_return/processor.py.  A string whose characters matter (equipment,*)
(* type) is a tuple of one-character strings; work_order and assigned_to   *)
(* are only compared for equality and stay opaque.  A timestamp is a       *)
(* number of hours since Monday 2020-12-21 00:00, the first day of ISO     *)
(* week 52 of 2020; a day is a number of days since that Monday.           *)
(***************************************************************************)
\* Weeks 1..52: clip(1, 52) and range(1, 53).
LastWeek == 52

iso_weeks == 1..LastWeek

INCLUDE_TYPES ==
    <<<<"b", "r", "e", "a", "k", "d", "o", "w", "n">>,
      <<"c", "o", "r", "r", "e", "c", "t", "i", "v", "e">>,
      <<"p", "r", "e", "v", "e", "n", "t", "i", "v", "e">>,
      <<"p", "r", "e", "v", "e", "n", "t", "a", "t", "i", "v", "e">>,
      <<"p", "m">>,
      <<"i", "n", "s", "p", "e", "c", "t", "i", "o", "n">>,
      <<"c", "a", "m", "p", "a", "i", "g", "n">>>>

UpperCase ==
    <<"A", "B", "C", "D", "E", "F", "G", "H", "I", "J", "K", "L", "M",
      "N", "O", "P", "Q", "R", "S", "T", "U", "V", "W", "X", "Y", "Z">>

LowerCase ==
    <<"a", "b", "c", "d", "e", "f", "g", "h", "i", "j", "k", "l", "m",
      "n", "o", "p", "q", "r", "s", "t", "u", "v", "w", "x", "y", "z">>

\* The lowercase letter of each uppercase letter.
LowerOf ==
    [c \in {UpperCase[i] : i \in 1..Len(UpperCase)} |->
        LowerCase[CHOOSE i \in 1..Len(UpperCase) : UpperCase[i] = c]]

LowerChar(c) == IF c \in DOMAIN LowerOf THEN LowerOf[c] ELSE c

\* .str.lower()
str_lower(s) == [i \in 1..Len(s) |-> LowerChar(s[i])]

\* sub in s
Contains(s, sub) ==
    \E i \in 0..(Len(s) - Len(sub)) : \A j \in 1..Len(sub) : s[i + j] = sub[j]

Digit(c) == c \in {"0", "1", "2", "3", "4", "5", "6", "7", "8", "9"}

\* s[i], ..., s[i + n - 1] are digits.
AllDigits(s, i, n) == \A j \in i..(i + n - 1) : Digit(s[j])

\* The least element of a non-empty set of numbers.
Least(S) == CHOOSE i \in S : \A j \in S : i <= j

\* extract_asset: re.search(r"(\d{5,6})$", s), else re.search(r"(\d{4,6})", s),
\* else s itself.  The first pattern matches the last 6 characters when they
\* are digits, else the last 5; the second the leftmost run of 4 digits,
\* extended greedily to at most 6.
extract_asset(s) ==
    LET n == Len(s)
    IN  IF n >= 6 /\ AllDigits(s, n - 5, 6) THEN SubSeq(s, n - 5, n)
        ELSE IF n >= 5 /\ AllDigits(s, n - 4, 5) THEN SubSeq(s, n - 4, n)
        ELSE LET starts == {i \in 1..(n - 3) : AllDigits(s, i, 4)}
             IN  IF starts = {} THEN s
                 ELSE LET i == Least(starts)
                          len == IF i + 4 <= n /\ Digit(s[i + 4])
                                 THEN (IF i + 5 <= n /\ Digit(s[i + 5]) THEN 6 ELSE 5)
                                 ELSE 4
                      IN  SubSeq(s, i, i + len - 1)

\* A date cell of the raw table: a timestamp, an empty cell, or text that is
\* no date.
At(h) == [kind |-> "time", hour |-> h]

Blank == [kind |-> "blank", hour |-> 0]

Garbled == [kind |-> "text", hour |-> 0]

\* pd.to_datetime(..., errors="coerce"): NaT for what is no date.
to_datetime(c) == IF c.kind = "time" THEN c.hour ELSE NA

\* The rows of df at the indexes of keep, in row order.
Take(df, keep) ==
    LET order == SortedSeq(keep)
    IN  [k \in 1..Len(order) |-> df[order[k]]]

\* Lines 55-74: dates parsed, type lowercased, asset_number extracted.  The
\* rows are given by field: the tables that have rows have the six standard
\* column names, for which the renaming of lines 33-48 is the identity.
Parsed(rec) ==
    [work_order     |-> rec.work_order,
     equipment      |-> rec.equipment,
     type           |-> str_lower(rec.type),
     assigned_to    |-> rec.assigned_to,
     date_reported  |-> to_datetime(rec.date_reported),
     date_completed |-> to_datetime(rec.date_completed),
     asset_number   |-> extract_asset(rec.equipment)]

\* The equipment test without .str.lower().
IncludedCaseSensitive(r) ==
    \/ Contains(r.equipment, <<"i", "b", "o", "t">>)
    \/ \E k \in 1..Len(INCLUDE_TYPES) : Contains(r.type, INCLUDE_TYPES[k])

\* mask1 | mask2, lines 77-78.
Included(r) ==
    \/ Contains(str_lower(r.equipment), <<"i", "b", "o", "t">>)
    \/ \E k \in 1..Len(INCLUDE_TYPES) : Contains(r.type, INCLUDE_TYPES[k])

\* date.isocalendar().week for the days from 2020-12-21 to 2022-01-02: week 52
\* and week 53 of 2020, then the 52 weeks of 2021.
IsoCalendarWeek(d) ==
    LET k == d \div 7
    IN  IF k = 0 THEN 52 ELSE IF k = 1 THEN 53 ELSE k - 1

\* No clipping.
Unclipped(w) == w

\* .clip(1, 52)
Clip(w) == IF w < 1 THEN 1 ELSE IF w > LastWeek THEN LastWeek ELSE w

\* Lines 85-89: iso_week and day of a row that has date_completed.
WithWeekAndDay(r) ==
    [work_order     |-> r.work_order,
     equipment      |-> r.equipment,
     type           |-> r.type,
     assigned_to    |-> r.assigned_to,
     date_reported  |-> r.date_reported,
     date_completed |-> r.date_completed,
     asset_number   |-> r.asset_number,
     iso_week       |-> Clip(IsoCalendarWeek(r.date_completed \div 24)),
     day            |-> r.date_completed \div 24]

normalize_df(df) ==
    LET parsed == [i \in 1..Len(df) |-> Parsed(df[i])]
        kept   == {i \in 1..Len(df) :
                      Included(parsed[i]) /\ parsed[i].date_completed # NA}
        rows   == Take(parsed, kept)
    IN  [k \in 1..Len(rows) |-> WithWeekAndDay(rows[k])]

(***************************************************************************)
(* Column inference, normalize_df lines 33-53.  A column name is a tuple   *)
(* of characters; no column is the empty name <<>> (None and '' are both   *)
(* false in "if col").                                                     *)
(***************************************************************************)
\* mappings, in the order of the dict.
mappings ==
    <<[std  |-> <<"w", "o", "r", "k", "_", "o", "r", "d", "e", "r">>,
       pats |-> <<<<"w", "o", "r", "k", "_", "o", "r", "d", "e", "r">>,
                  <<"w", "o">>,
                  <<"w", "o", "r", "k", "o", "r", "d", "e", "r">>,
                  <<"w", "o", "r", "k", " ", "o", "r", "d", "e", "r">>>>],
      [std  |-> <<"e", "q", "u", "i", "p", "m", "e", "n", "t">>,
       pats |-> <<<<"e", "q", "u", "i", "p", "m", "e", "n", "t">>,
                  <<"a", "s", "s", "e", "t">>,
                  <<"e", "q", "u", "i", "p", "m", "e", "n", "t", " ", "i", "d">>,
                  <<"a", "s", "s", "e", "t", " ", "i", "d">>>>],
      [std  |-> <<"t", "y", "p", "e">>,
       pats |-> <<<<"t", "y", "p", "e">>,
                  <<"w", "o", "r", "k", "_", "t", "y", "p", "e">>,
                  <<"w", "o", "r", "k", " ", "t", "y", "p", "e">>,
                  <<"w", "o", "_", "t", "y", "p", "e">>>>],
      [std  |-> <<"a", "s", "s", "i", "g", "n", "e", "d", "_", "t", "o">>,
       pats |-> <<<<"a", "s", "s", "i", "g", "n", "e", "d", "_", "t", "o">>,
                  <<"a", "s", "s", "i", "g", "n", "e", "d">>,
                  <<"t", "e", "c", "h">>,
                  <<"a", "s", "s", "i", "g", "n", "e", "d", " ", "t", "o">>,
                  <<"a", "s", "s", "i", "g", "n", "e", "e">>>>],
      [std  |-> <<"d", "a", "t", "e", "_", "r", "e", "p", "o", "r", "t", "e", "d">>,
       pats |-> <<<<"d", "a", "t", "e", "_", "r", "e", "p", "o", "r", "t", "e", "d">>,
                  <<"r", "e", "p", "o", "r", "t", "e", "d">>,
                  <<"o", "p", "e", "n", "e", "d">>,
                  <<"d", "a", "t", "e", " ", "r", "e", "p", "o", "r", "t", "e", "d">>,
                  <<"d", "a", "t", "e", "_", "r", "e", "p", "o", "r", "t", "e", "d">>>>],
      [std  |-> <<"d", "a", "t", "e", "_", "c", "o", "m", "p", "l", "e", "t", "e", "d">>,
       pats |-> <<<<"d", "a", "t", "e", "_", "c", "o", "m", "p", "l", "e", "t", "e", "d">>,
                  <<"c", "o", "m", "p", "l", "e", "t", "e", "d">>,
                  <<"c", "l", "o", "s", "e", "d">>,
                  <<"d", "a", "t", "e", " ", "c", "o", "m", "p", "l", "e", "t", "e", "d">>,
                  <<"d", "a", "t", "e", "_", "c", "o", "m", "p", "l", "e", "t", "e", "d">>>>]>>

\* Lines 20-23 of _best_col: the patterns in order, from pattern p on; for the
\* first one that is part of a name of lc, the first such name (0 for none).
RECURSIVE first_match(_, _, _, _)
first_match(lowered, names, patterns, p) ==
    IF p > Len(patterns) THEN 0
    ELSE LET found == {i \in names : Contains(lowered[i], patterns[p])}
         IN  IF found # {} THEN Least(found)
             ELSE first_match(lowered, names, patterns, p + 1)

\* Line 18: c.lower() for each column, in column order.
RECURSIVE lower_names(_)
lower_names(cols) ==
    IF cols = <<>> THEN <<>>
    ELSE <<SubSeq(str_lower(Head(cols)), 1, Len(Head(cols)))>> \o lower_names(Tail(cols))

\* _best_col(df, patterns), given the lowercased names: lc maps each lowercased
\* name to the last column that has it, in the order the lowercased names
\* first appear.
best_col(cols, lowered, patterns) ==
    LET names   == {i \in 1..Len(cols) : \A j \in 1..(i - 1) : lowered[j] # lowered[i]}
        q       == first_match(lowered, names, patterns, 1)
        same    == {j \in 1..Len(cols) : lowered[j] = lowered[q]}
    IN  IF q = 0 THEN <<>>
        ELSE cols[CHOOSE j \in same : \A k \in same : k <= j]

\* Lines 43-44: the column found for each field, <<>> for none.
Matched(cols, lowered) ==
    [k \in 1..Len(mappings) |-> best_col(cols, lowered, mappings[k].pats)]

\* Lines 45-46: col_map[col] = std, for the fields in order; a column matched
\* by two fields ends up under the later one.
col_map(matched) ==
    [c \in {matched[k] : k \in 1..Len(mappings)} \ {<<>>} |->
        mappings[CHOOSE k \in 1..Len(mappings) :
                    /\ matched[k] = c
                    /\ \A j \in 1..Len(mappings) : matched[j] = c => j <= k].std]

\* df.rename(columns=col_map), line 48: the new names of the columns.
Renamed(cols, cm) ==
    [i \in 1..Len(cols) |-> IF cols[i] \in DOMAIN cm THEN cm[cols[i]] ELSE cols[i]]

\* Lines 51-53: for each required field the source column that now has its
\* name (the first, should there be several), or <<>> when the field has none
\* and is created as a column of pd.NA.
Fields(cols, names) ==
    [k \in 1..Len(mappings) |->
        LET holders == {i \in 1..Len(cols) : names[i] = mappings[k].std}
        IN  IF holders = {} THEN <<>> ELSE cols[Least(holders)]]

\* The six standard column names.
StandardColumns == [k \in 1..Len(mappings) |-> mappings[k].std]

(***************************************************************************)
(* compute_metrics.  Hours and percentages are fixed-point, one unit 0.01; *)
(* a quotient that is rounded later is kept exact as num / den.            *)
(***************************************************************************)
\* The index of the first row of each group of rows with the same key, keys
\* being the list of the rows' keys.
\* The rows whose key no other row has (keep=False).
KeepUnrepeated(keys) ==
    {i \in 1..Len(keys) : \A j \in 1..Len(keys) : keys[j] = keys[i] => j = i}

KeepFirst(keys) ==
    {i \in 1..Len(keys) : \A j \in 1..(i - 1) : keys[j] # keys[i]}

\* df.drop_duplicates(subset=...): the first row of each key, in row order.
drop_duplicates(df, keys) == Take(df, KeepFirst(keys))

\* STEP A, line 98.
RecordKey(r) == <<r.work_order, r.asset_number, r.assigned_to, r.day>>

df_a(df) == drop_duplicates(df, [i \in 1..Len(df) |-> RecordKey(df[i])])

Days(df) == {df[i].day : i \in 1..Len(df)}

\* The rows of the day, counted one by one.
daily_completions_by_row(dfa, d) ==
    Cardinality({j \in 1..Len(dfa) : dfa[j].day = d})

\* The assets of the day, each once, whoever worked on them.
daily_completions_by_asset(dfa, d) ==
    Cardinality({dfa[i].asset_number : i \in {j \in 1..Len(dfa) : dfa[j].day = d}})

\* Lines 101-104: the (asset_number, assigned_to) pairs of a day, each once.
daily_completions(dfa, d) ==
    Cardinality({<<dfa[i].asset_number, dfa[i].assigned_to>> :
                    i \in {j \in 1..Len(dfa) : dfa[j].day = d}})

\* The test with the technicians left out.
is_return_by_count(occurrences, techs) == occurrences > 1

\* Line 111.
is_return(occurrences, techs) == occurrences > 1 /\ techs >= 2

\* Lines 107-111: df_a grouped by (day, asset_number).
GroupedAssetDay(dfa) ==
    LET keys == {<<dfa[i].day, dfa[i].asset_number>> : i \in 1..Len(dfa)}
    IN  [key \in keys |->
            LET group == {i \in 1..Len(dfa) :
                             <<dfa[i].day, dfa[i].asset_number>> = key}
                occurrences == Cardinality(group)
                techs == Cardinality({dfa[i].assigned_to : i \in group})
            IN  [occurrences |-> occurrences, techs |-> techs,
                 is_return |-> is_return(occurrences, techs)]]

\* Line 112: the flagged assets of a day.
daily_returns(grouped, d) ==
    Cardinality({key \in DOMAIN grouped : key[1] = d /\ grouped[key].is_return})

\* Lines 115-119: one row per day of df_a.
Daily(dfa, grouped) ==
    [d \in Days(dfa) |->
        [daily_completions |-> daily_completions(dfa, d),
         returned_bots     |-> daily_returns(grouped, d)]]

\* Line 122.
daily_active(dly) == {d \in DOMAIN dly : dly[d].daily_completions > 0}

\* Line 127: the iso_week of the first row of each day of the normalized table.
day_to_week(df) ==
    [d \in Days(df) |-> df[Least({i \in 1..Len(df) : df[i].day = d})].iso_week]

\* Line 128, day_to_week.get(d.date(), np.nan).
WeekOfDay(dtw, d) == IF d \in DOMAIN dtw THEN dtw[d] ELSE NA

\* Line 123: returned_bots / daily_completions * 100 of an active day, in units
\* of 0.01 percent.
daily_return_pct(dly, d) ==
    [num |-> 10000 * dly[d].returned_bots, den |-> dly[d].daily_completions]

RECURSIVE SumOfRates(_, _)
\* The sum of daily_return_pct over a set of days.
SumOfRates(dly, days) ==
    IF days = {} THEN [num |-> 0, den |-> 1]
    ELSE LET d    == Least(days)
             pct  == daily_return_pct(dly, d)
             rest == SumOfRates(dly, days \ {d})
         IN  [num |-> pct.num * rest.den + rest.num * pct.den,
              den |-> pct.den * rest.den]

\* The week's returned_bots over the week's daily_completions, pooled.
weekly_return_pooled(dly, dtw, w) ==
    LET days == {d \in daily_active(dly) : WeekOfDay(dtw, d) = w}
    IN  IF days = {} THEN [absent |-> TRUE, num |-> 0, den |-> 1]
        ELSE [absent |-> FALSE,
              num |-> 10000 * Cardinality(UNION {{d} \X (1..dly[d].returned_bots) :
                                                    d \in days}),
              den |-> Cardinality(UNION {{d} \X (1..dly[d].daily_completions) :
                                            d \in days})]

\* Lines 123 and 131-133: the mean of daily_return_pct over the week's active
\* days, in units of 0.01 percent; absent for a week without active day.
weekly_return(dly, dtw, w) ==
    LET days == {d \in daily_active(dly) : WeekOfDay(dtw, d) = w}
        sum  == SumOfRates(dly, days)
    IN  IF days = {} THEN [absent |-> TRUE, num |-> 0, den |-> 1]
        ELSE [absent |-> FALSE, num |-> sum.num,
              den |-> sum.den * Cardinality(days)]

\* Line 139, in units of 0.01 h; NaN when date_reported is NaT.
ttr_hours(r) ==
    IF r.date_reported = NA THEN NA
    ELSE (r.date_completed - r.date_reported) * 100

\* The rows of the week, counted one by one.
wo_volume_by_row(df, w) == Cardinality({i \in 1..Len(df) : df[i].iso_week = w})

\* Line 142.
wo_volume(df, w) ==
    Cardinality({df[i].work_order : i \in {j \in 1..Len(df) : df[j].iso_week = w}})

WeekOrderKey(r) == <<r.iso_week, r.work_order>>

\* GroupBy.first(): the first value of the group that is not NaN.
FirstTtr(df, i) ==
    LET known == {j \in 1..Len(df) :
                     /\ WeekOrderKey(df[j]) = WeekOrderKey(df[i])
                     /\ ttr_hours(df[j]) # NA}
    IN  IF known = {} THEN NA ELSE ttr_hours(df[Least(known)])

\* Line 145: one row per (iso_week, work_order).
wo_ttr(df) ==
    LET heads == SortedSeq(KeepFirst([i \in 1..Len(df) |-> WeekOrderKey(df[i])]))
    IN  [k \in 1..Len(heads) |->
            [iso_week   |-> df[heads[k]].iso_week,
             work_order |-> df[heads[k]].work_order,
             ttr_hours  |-> FirstTtr(df, heads[k])]]

RECURSIVE SortValues(_)
SortValues(s) ==
    IF s = <<>> THEN <<>>
    ELSE LET i == CHOOSE i \in 1..Len(s) : \A j \in 1..Len(s) : s[i] <= s[j]
         IN  <<s[i]>> \o SortValues(SubSeq(s, 1, i - 1) \o SubSeq(s, i + 1, Len(s)))

\* The median of a non-empty list of values.
Median(s) ==
    LET v == SortValues(s)
        n == Len(v)
    IN  IF n % 2 = 1 THEN v[(n + 1) \div 2]
        ELSE (v[n \div 2] + v[n \div 2 + 1]) \div 2

\* The rows of wo_ttr of week w that have a ttr_hours.
WithTtr(wt, w) ==
    {k \in 1..Len(wt) : wt[k].iso_week = w /\ wt[k].ttr_hours # NA}

\* Line 146: the median skips NaN and is NaN for a week without any value.
weekly_mttr(wt, w) ==
    LET order == SortedSeq(WithTtr(wt, w))
    IN  IF order = <<>> THEN NA
        ELSE Median([k \in 1..Len(order) |-> wt[order[k]].ttr_hours])

\* The share with an empty denominator reported as 0.
pct_leq_or_zero(wt, hours, w) ==
    LET total == Cardinality(WithTtr(wt, w))
        leq   == Cardinality({k \in WithTtr(wt, w) : wt[k].ttr_hours <= hours * 100})
    IN  IF total = 0 THEN [absent |-> FALSE, num |-> 0, den |-> 1]
        ELSE [absent |-> FALSE, num |-> 10000 * leq, den |-> total]

\* Lines 149-153.  total and leq are indexed by the weeks that have a row in
\* the respective selection; leq / total aligns the two indexes and is NaN
\* for a week that is in only one of them.
pct_leq(wt, hours, w) ==
    LET total == Cardinality(WithTtr(wt, w))
        leq   == Cardinality({k \in WithTtr(wt, w) : wt[k].ttr_hours <= hours * 100})
    IN  IF total = 0 \/ leq = 0 THEN [absent |-> TRUE, num |-> 0, den |-> 1]
        ELSE [absent |-> FALSE, num |-> 10000 * leq, den |-> total]

\* .round(2) of num / den (num >= 0, den > 0), ties to even; NaN stays NaN.
Round(q) ==
    IF q.absent THEN NA
    ELSE LET whole == q.num \div q.den
             rem   == q.num % q.den
         IN  IF 2 * rem < q.den THEN whole
             ELSE IF 2 * rem > q.den THEN whole + 1
             ELSE IF whole % 2 = 0 THEN whole ELSE whole + 1

\* No fill: an absent value stays absent.
FillNothing(q) == q

\* .fillna(0.0)
FillZero(q) == IF q.absent THEN [absent |-> FALSE, num |-> 0, den |-> 1] ELSE q

\* Lines 158-189: the row of week w.
ResultRow(df, dly, dtw, wt, w) ==
    LET volume == wo_volume(df, w)
    IN  Row(w,
            Round(FillZero(weekly_return(dly, dtw, w))),
            IF volume > 0 THEN weekly_mttr(wt, w) ELSE NA,
            volume,
            IF volume > 0 THEN Round(pct_leq(wt, 24, w)) ELSE NA,
            IF volume > 0 THEN Round(pct_leq(wt, 48, w)) ELSE NA)

\* Line 128, .astype(pd.Int64Dtype()) of the mapped index.  With no active day
\* the index is an empty DatetimeIndex; what map and astype make of it depends
\* on the pandas release (an empty integer column, or a TypeError because
\* datetime64[ns] does not convert to Int64), and the repository pins none.
IsoWeekColumn(active) ==
    IF active = {} THEN {"converted", "TypeError"} ELSE {"converted"}

Raised == [status |-> "raised", rows |-> <<>>]

Returned(rows) == [status |-> "returned", rows |-> rows]

\* compute_metrics(df), lines 94-191.  Each intermediate table is computed once
\* and bound to its name.
compute_metrics ==
    \E lowered \in {lower_names(columns)} :
    \E matched \in {Matched(columns, lowered)} :
    \E cm \in {col_map(matched)} :
    \E names \in {Renamed(columns, cm)} :
    \E df \in {normalize_df(raw)} :
    \E dfa \in {df_a(df)} :
    \E grouped \in {GroupedAssetDay(dfa)} :
    \E dly \in {Daily(dfa, grouped)} :
    \E dtw \in {day_to_week(df)} :
    \E wt \in {wo_ttr(df)} :
        /\ result = NotRun
        /\ fields' = Fields(columns, names)
        /\ normalized' = df
        /\ grouped_asset_day' = grouped
        /\ daily' = dly
        /\ \E outcome \in IsoWeekColumn(daily_active(dly)) :
              result' = IF outcome = "TypeError" THEN Raised
                        ELSE Returned([w \in iso_weeks |->
                                          ResultRow(df, dly, dtw, wt, w)])
        /\ UNCHANGED <<columns, raw>>
        /\ UNCHANGED appVars

(***************************************************************************)
(* Inputs of compute_metrics: tables of at most MaxRecs records, all of    *)
(* one family of sample records.  date_completed is 10:00 of its day and   *)
(* date_reported lies a number of hours before it, or is empty.            *)
(***************************************************************************)
MaxRecs == 3

WorkOrders == {"WO-1", "WO-2"}

Techs == {"T1", "T2"}

\* iBot equipment with asset number 12345.
IBotA == <<"i", "B", "o", "t", "-", "1", "2", "3", "4", "5">>

\* iBot equipment with asset number 54321.
IBotB == <<"I", "B", "O", "T", " ", "5", "4", "3", "2", "1">>

\* Equipment that is no iBot and has asset number 12345 as well.
CartA == <<"C", "a", "r", "t", "1", "2", "3", "4", "5">>

Corrective == <<"C", "o", "r", "r", "e", "c", "t", "i", "v", "e">>

Calibration == <<"C", "a", "l", "i", "b", "r", "a", "t", "i", "o", "n">>

Week53Monday == 1 * 7

WeekOneMonday == 2 * 7

WeekOneTuesday == WeekOneMonday + 1

WeekTwoMonday == 3 * 7

Completed(day) == At(day * 24 + 10)

Reported(day, age) == IF age = NA THEN Blank ELSE At(day * 24 + 10 - age)

RawRecord(wo, equipment, type, tech, reported, completed) ==
    [work_order |-> wo, equipment |-> equipment, type |-> type,
     assigned_to |-> tech, date_reported |-> reported,
     date_completed |-> completed]

\* One day: work orders, assets and technicians vary.
ReturnRecords ==
    {RawRecord(wo, eq, Corrective, tech, Reported(WeekOneMonday, 12),
               Completed(WeekOneMonday)) :
        wo \in WorkOrders, eq \in {IBotA, IBotB}, tech \in Techs}

\* One asset: work orders, technicians and days of one week vary.
DayRecords ==
    {RawRecord(wo, IBotA, Corrective, tech, Reported(day, 12), Completed(day)) :
        wo \in WorkOrders, tech \in Techs, day \in {WeekOneMonday, WeekOneTuesday}}

\* One week: work orders and times to repair vary.
ClosureRecords ==
    {RawRecord(wo, IBotA, Corrective, "T1", Reported(WeekOneMonday, age),
               Completed(WeekOneMonday)) :
        wo \in WorkOrders, age \in {NA, 12, 30, 60}}

\* Two weeks: work orders vary, with and without date_reported.
WeekRecords ==
    {RawRecord(wo, IBotA, Corrective, "T1", Reported(day, age), Completed(day)) :
        wo \in WorkOrders, age \in {NA, 30}, day \in {WeekOneMonday, WeekTwoMonday}}

\* Records the filter may drop: no iBot, a type outside INCLUDE_TYPES, no
\* date_completed.
FilterRecords ==
    {RawRecord("WO-1", eq, type, "T1", Reported(Week53Monday, 12), completed) :
        eq \in {IBotA, CartA}, type \in {Corrective, Calibration},
        completed \in {Garbled, Completed(Week53Monday)}}

Families ==
    {ReturnRecords, DayRecords, ClosureRecords, WeekRecords, FilterRecords}

Inputs == UNION {UNION {[1..k -> F] : k \in 0..MaxRecs} : F \in Families}

InitAgg ==
    /\ master = NoFile
    /\ InitSession
    /\ columns = StandardColumns
    /\ raw \in Inputs
    /\ fields = <<>>
    /\ normalized = <<>>
    /\ grouped_asset_day = <<>>
    /\ daily = <<>>
    /\ result = NotRun

NextAgg == compute_metrics

SpecAgg == InitAgg /\ [][NextAgg]_vars

(***************************************************************************)
(* Tables whose column names are not the standard ones: the header is a    *)
(* list of at most MaxCols different names, and the table has no rows.     *)
(***************************************************************************)
MaxCols == 3

WOType == <<"W", "O", " ", "T", "y", "p", "e">>
EquipmentCol == <<"E", "q", "u", "i", "p", "m", "e", "n", "t">>
TypeCol == <<"T", "y", "p", "e">>
TypeUpper == <<"T", "Y", "P", "E">>
StatusCol == <<"S", "t", "a", "t", "u", "s">>
ClosedCol == <<"C", "l", "o", "s", "e", "d">>

ColumnNames == {WOType, EquipmentCol, TypeCol, TypeUpper, StatusCol, ClosedCol}

Headers ==
    UNION {{h \in [1..k -> ColumnNames] : \A i, j \in 1..k : h[i] = h[j] => i = j} :
              k \in 0..MaxCols}

InitCols ==
    /\ master = NoFile
    /\ InitSession
    /\ columns \in Headers
    /\ raw = <<>>
    /\ fields = <<>>
    /\ normalized = <<>>
    /\ grouped_asset_day = <<>>
    /\ daily = <<>>
    /\ result = NotRun

SpecCols == InitCols /\ [][NextAgg]_vars

(***************************************************************************)
(* Properties of the merge.                                                *)
(***************************************************************************)
\* The rows of a table for week w.
RowsOf(rows, w) == {rows[i] : i \in {j \in 1..Len(rows) : rows[j].Week = w}}

HasVolume(rows, w) == \E r \in RowsOf(rows, w) : r.WOVolume > 0

ZeroVolume(rows, w) == \E r \in RowsOf(rows, w) : r.WOVolume = 0

\* Week w has one row in both tables, the same one.
SameRow(rowsA, rowsB, w) ==
    /\ Cardinality(RowsOf(rowsA, w)) = 1
    /\ RowsOf(rowsA, w) = RowsOf(rowsB, w)

\* The table now in the master file.
Saved == ReadCsv(master).rows

\* The last run merged an upload into an existing master and wrote the result.
Merged == last \in {"merge", "apply", "call"}

InOverlap(w) == HasVolume(master_df.rows, w) /\ HasVolume(latest_df.rows, w)

\* C1: after a merge into an existing master, every week with WO Volume > 0 in
\* both the master and the upload that is not in overwrite_weeks holds the
\* master's original row.
C1_UnselectedOverlapKeepsMaster ==
    Merged =>
        \A w \in Weeks :
            InOverlap(w) /\ w \notin overwrite_weeks
                => SameRow(Saved, master_df.rows, w)

\* A merge kept the master's row of an overlapping week the user did not
\* select, where the upload's row has another volume.
C1_Witness ==
    /\ last = "apply"
    /\ \E w \in Weeks :
        /\ InOverlap(w) /\ w \notin overwrite_weeks
        /\ \E r \in RowsOf(master_df.rows, w) : r.WOVolume = 2
        /\ \E r \in RowsOf(latest_df.rows, w) : r.WOVolume = 1
        /\ SameRow(Saved, master_df.rows, w)

\* C2: after a merge into an existing master, every week where the upload has
\* WO Volume > 0 and that is not an unselected overlap week holds the upload's
\* row, in the no-overlap branch and in the overlap branch.
C2_NewVolumeTakesIncoming ==
    Merged =>
        \A w \in Weeks :
            HasVolume(latest_df.rows, w) /\ ~(InOverlap(w) /\ w \notin overwrite_weeks)
                => SameRow(Saved, latest_df.rows, w)

\* The overlap branch replaced a selected overlap week, whose master row was
\* another one, and adopted a week that only the upload has.
C2_Witness ==
    /\ last = "apply"
    /\ \E w \in overwrite_weeks :
        /\ InOverlap(w)
        /\ ~SameRow(master_df.rows, latest_df.rows, w)
        /\ SameRow(Saved, latest_df.rows, w)
    /\ \E w \in Weeks :
        /\ HasVolume(latest_df.rows, w) /\ ZeroVolume(master_df.rows, w)
        /\ SameRow(Saved, latest_df.rows, w)

\* C3: a merge with an empty overwrite selection leaves every row of the master
\* unchanged whose week is not in the overlap set and has WO Volume 0 in the
\* upload.
C3_EmptySelectionPreserves ==
    Merged /\ overwrite_weeks = {} =>
        \A w \in Weeks :
            /\ RowsOf(master_df.rows, w) # {}
            /\ ~InOverlap(w)
            /\ ZeroVolume(latest_df.rows, w)
            => SameRow(Saved, master_df.rows, w)

\* A merge without selection kept an active master week for which the upload
\* has a zero row.
C3_Witness ==
    /\ Merged /\ overwrite_weeks = {}
    /\ \E w \in Weeks :
        /\ HasVolume(master_df.rows, w)
        /\ ZeroVolume(latest_df.rows, w)
        /\ SameRow(Saved, master_df.rows, w)

C5_MergedIsDense ==
    Merged =>
        /\ Len(Saved) = NumWeeks
        /\ \A i \in 1..Len(Saved) : Saved[i].Week = i

\* C6: when no master exists, the table saved as the master is the upload's
\* weekly table, row for row.
C6_BootstrapIsIncoming ==
    last = "save" => master.exists /\ Saved = latest_df.rows

\* The first save of an upload that has an active week and a zero week.
C6_Witness ==
    /\ last = "save"
    /\ \E w \in Weeks : HasVolume(latest_df.rows, w)
    /\ \E w \in Weeks : ZeroVolume(latest_df.rows, w)
    /\ Saved = latest_df.rows

\* C7: the overlap set shown before a merge is the set of weeks with WO Volume
\* > 0 in the master as loaded and in the upload, it is empty when no master
\* exists, and the weeks chosen for overwriting are among it.
C7_OverlapSet ==
    last \in {"upload", "save", "merge", "apply", "error", "clear"} =>
        /\ latest_overlapping =
              IF master_df.loaded THEN {w \in Weeks : InOverlap(w)} ELSE {}
        /\ overwrite_weeks \subseteq latest_overlapping

\* An upload overlaps the master in one week and not in another active week of
\* the master, and the user selected the overlapping week.
C7_Witness ==
    /\ last = "apply"
    /\ overwrite_weeks # {}
    /\ latest_overlapping # {}
    /\ \E w \in Weeks : HasVolume(master_df.rows, w) /\ w \notin latest_overlapping

(***************************************************************************)
(* Properties of compute_metrics.                                          *)
(***************************************************************************)
\* C8: for every input table, compute_metrics returns exactly 52 rows whose
\* Week values are 1, 2, ..., 52 in this order.
C8_FiftyTwoWeeks ==
    result # NotRun =>
        /\ result.status = "returned"
        /\ Len(result.rows) = LastWeek
        /\ \A i \in 1..Len(result.rows) : result.rows[i].Week = i

\* The work orders of week w in the normalized table that have a ttr_hours.
TimedOrders(w) ==
    LET wt == wo_ttr(normalized)
    IN  {wt[k].work_order : k \in WithTtr(wt, w)}

\* Those of them closed within the given number of hours.
ClosedWithin(hours, w) ==
    LET wt == wo_ttr(normalized)
    IN  {wt[k].work_order : k \in {j \in WithTtr(wt, w) : wt[j].ttr_hours <= hours * 100}}

\* C9: in every week that has a work order with a ttr_hours, '% <=24 hrs' and
\* '% <=48 hrs' are the share of these work orders closed within 24 and 48
\* hours, times 100 (to two decimals): 0.0 when none is, 100.0 when all are.
C9_ClosurePercentage ==
    result.status = "returned" =>
        \A w \in iso_weeks :
            TimedOrders(w) # {} =>
                /\ result.rows[w].Pct24 =
                      Round([absent |-> FALSE,
                             num |-> 10000 * Cardinality(ClosedWithin(24, w)),
                             den |-> Cardinality(TimedOrders(w))])
                /\ result.rows[w].Pct48 =
                      Round([absent |-> FALSE,
                             num |-> 10000 * Cardinality(ClosedWithin(48, w)),
                             den |-> Cardinality(TimedOrders(w))])

\* The rows of the normalized table for an asset on a day.
RecordsOf(d, asset) ==
    {normalized[i] : i \in {j \in 1..Len(normalized) :
        normalized[j].day = d /\ normalized[j].asset_number = asset}}

\* The occurrences of an asset on a day once duplicates of (work_order,
\* asset_number, assigned_to, day) are dropped.
Occurrences(d, asset) == {<<r.work_order, r.assigned_to>> : r \in RecordsOf(d, asset)}

Technicians(d, asset) == {r.assigned_to : r \in RecordsOf(d, asset)}

\* C10: an asset is flagged as a return on a day iff it has more than one
\* deduplicated occurrence that day and these involve at least two distinct
\* technicians, and returned_bots of a day is the number of assets flagged
\* that day.
C10_ReturnDetection ==
    result # NotRun =>
        /\ DOMAIN grouped_asset_day =
              {<<normalized[i].day, normalized[i].asset_number>> :
                  i \in 1..Len(normalized)}
        /\ \A key \in DOMAIN grouped_asset_day :
              grouped_asset_day[key].is_return <=>
                  /\ Cardinality(Occurrences(key[1], key[2])) > 1
                  /\ Cardinality(Technicians(key[1], key[2])) >= 2
        /\ \A d \in DOMAIN daily :
              daily[d].returned_bots =
                  Cardinality({key \in DOMAIN grouped_asset_day :
                                  key[1] = d /\ grouped_asset_day[key].is_return})

\* Two technicians worked on one asset on the same day, a second asset was
\* serviced once: one asset of the day is flagged.
C10_Witness ==
    /\ result.status = "returned"
    /\ Len(raw) = 3
    /\ \E key \in DOMAIN grouped_asset_day :
        /\ grouped_asset_day[key].is_return
        /\ grouped_asset_day[key].techs = 2
        /\ daily[key[1]].returned_bots = 1
        /\ daily[key[1]].daily_completions = 3

\* The (asset_number, assigned_to) pairs among the normalized records of a day.
PairsOf(d) ==
    {<<normalized[i].asset_number, normalized[i].assigned_to>> :
        i \in {j \in 1..Len(normalized) : normalized[j].day = d}}

\* The active days of the daily table that fall into week w.
ActiveDays(w) ==
    {d \in DOMAIN daily : daily[d].daily_completions > 0 /\ normalized[
        Least({i \in 1..Len(normalized) : normalized[i].day = d})].iso_week = w}

\* C11: daily_completions of a day is the number of distinct (asset_number,
\* assigned_to) pairs among the day's records, and the day's rate is
\* returned_bots / daily_completions * 100: a week with a single active day
\* reports exactly this rate.
C11_DailyRate ==
    result # NotRun =>
        /\ DOMAIN daily = {normalized[i].day : i \in 1..Len(normalized)}
        /\ \A d \in DOMAIN daily :
              daily[d].daily_completions = Cardinality(PairsOf(d))
        /\ result.status = "returned" =>
              \A w \in iso_weeks : \A d \in ActiveDays(w) :
                  ActiveDays(w) = {d} =>
                      result.rows[w].WeeklyReturn =
                          Round([absent |-> FALSE,
                                 num |-> 10000 * daily[d].returned_bots,
                                 den |-> daily[d].daily_completions])

\* Three records of one day and one asset, two of them by the same technician:
\* daily_completions is 2, returned_bots 1 and the rate 50.0.
C11_Witness ==
    /\ result.status = "returned"
    /\ Len(normalized) = 3
    /\ \E d \in DOMAIN daily :
        /\ Cardinality({i \in 1..Len(normalized) : normalized[i].day = d}) = 3
        /\ daily[d].daily_completions = 2
        /\ daily[d].returned_bots = 1
        /\ \E w \in iso_weeks :
            ActiveDays(w) = {d} /\ result.rows[w].WeeklyReturn = 5000

\* The mean of the rates of one or two active days, in units of 0.01 percent
\* (no week of the sample tables has more than two days).
MeanRate(days) ==
    LET d1 == Least(days)
        d2 == Least(days \ {d1})
    IN  IF Cardinality(days) = 1
        THEN [absent |-> FALSE, num |-> 10000 * daily[d1].returned_bots,
              den |-> daily[d1].daily_completions]
        ELSE [absent |-> FALSE,
              num |-> 10000 * (daily[d1].returned_bots * daily[d2].daily_completions
                               + daily[d2].returned_bots * daily[d1].daily_completions),
              den |-> 2 * daily[d1].daily_completions * daily[d2].daily_completions]

\* C12: Weekly Return % of a week is the arithmetic mean of daily_return_pct
\* over the week's active days, each day weighted equally, and 0.0 for a week
\* without active day.
C12_WeeklyMean ==
    result.status = "returned" =>
        \A w \in iso_weeks :
            /\ Cardinality(ActiveDays(w)) <= 2
            /\ result.rows[w].WeeklyReturn =
                  IF ActiveDays(w) = {} THEN 0 ELSE Round(MeanRate(ActiveDays(w)))

\* A week with a day of two completions and one return (50 %) and a day of one
\* completion and no return (0 %): the mean is 25.0, the pooled rate 33.33.
C12_Witness ==
    /\ result.status = "returned"
    /\ \E w \in iso_weeks :
        /\ Cardinality(ActiveDays(w)) = 2
        /\ \E d \in ActiveDays(w) :
              daily[d].daily_completions = 2 /\ daily[d].returned_bots = 1
        /\ \E d \in ActiveDays(w) :
              daily[d].daily_completions = 1 /\ daily[d].returned_bots = 0
        /\ result.rows[w].WeeklyReturn = 2500
    /\ \E w \in iso_weeks : ActiveDays(w) = {} /\ result.rows[w].WeeklyReturn = 0

\* C13: in every table compute_metrics returns, a row with WO Volume 0 has
\* MTTR (hrs), % <=24 hrs and % <=48 hrs absent and Weekly Return % 0.0.
C13_ZeroVolumeWeek ==
    result.status = "returned" =>
        \A i \in 1..Len(result.rows) :
            result.rows[i].WOVolume = 0 =>
                /\ result.rows[i].MTTR = NA
                /\ result.rows[i].Pct24 = NA
                /\ result.rows[i].Pct48 = NA
                /\ result.rows[i].WeeklyReturn = 0

\* A returned table with a week that has work orders, an MTTR and a return
\* rate above 0, beside its zero-volume weeks.
C13_Witness ==
    /\ result.status = "returned"
    /\ \E i \in 1..Len(result.rows) :
        /\ result.rows[i].WOVolume > 0
        /\ result.rows[i].MTTR # NA
        /\ result.rows[i].WeeklyReturn > 0
    /\ \E i \in 1..Len(result.rows) :
        result.rows[i].WOVolume = 0 /\ result.rows[i] = ZeroRow(i)

(***************************************************************************)
(* Properties of normalize_df.                                             *)
(***************************************************************************)
\* The string contains 'ibot' in any mix of upper and lower case.
HasIBot(s) ==
    \E i \in 0..(Len(s) - 4) :
        /\ s[i + 1] \in {"i", "I"}
        /\ s[i + 2] \in {"b", "B"}
        /\ s[i + 3] \in {"o", "O"}
        /\ s[i + 4] \in {"t", "T"}

\* The lowercased type contains one of the keywords.
HasKeyword(type) ==
    \E k \in 1..Len(INCLUDE_TYPES) : Contains(str_lower(type), INCLUDE_TYPES[k])

\* The raw records the normalizer has to keep.
Qualifying ==
    {i \in 1..Len(raw) :
        /\ HasIBot(raw[i].equipment) \/ HasKeyword(raw[i].type)
        /\ raw[i].date_completed.kind = "time"}

\* What identifies a record before and after normalization.
Identity(wo, equipment, type, tech, completed) ==
    <<wo, equipment, type, tech, completed>>

\* C14: the normalized table holds exactly the raw records whose equipment
\* contains 'ibot' (case-insensitively) or whose lowercased type contains one
\* of the INCLUDE_TYPES keywords, and whose date_completed is a timestamp; all
\* other records are dropped.
C14_Inclusion ==
    result # NotRun =>
        LET kept == SortedSeq(Qualifying)
        IN  /\ Len(normalized) = Len(kept)
            /\ \A k \in 1..Len(kept) :
                  Identity(normalized[k].work_order, normalized[k].equipment,
                           normalized[k].type, normalized[k].assigned_to,
                           normalized[k].date_completed)
                  = Identity(raw[kept[k]].work_order, raw[kept[k]].equipment,
                             str_lower(raw[kept[k]].type), raw[kept[k]].assigned_to,
                             raw[kept[k]].date_completed.hour)

\* Of three records one is kept for its iBot equipment alone, one is dropped
\* for failing both tests and one for its unreadable date_completed.
C14_Witness ==
    /\ result # NotRun
    /\ Len(raw) = 3 /\ Len(normalized) = 1
    /\ HasIBot(normalized[1].equipment)
    /\ normalized[1].type = str_lower(Calibration)
    /\ \E i \in 1..Len(raw) :
        /\ ~HasIBot(raw[i].equipment) /\ ~HasKeyword(raw[i].type)
        /\ raw[i].date_completed.kind = "time"
    /\ \E i \in 1..Len(raw) :
        /\ HasIBot(raw[i].equipment) /\ HasKeyword(raw[i].type)
        /\ raw[i].date_completed.kind = "text"

\* The ISO week of a day by the rule of the Thursday: the week of a day is
\* numbered by the position of its Thursday in the Thursday's year.  Day 0 is
\* Monday 2020-12-21, the 356th day of 2020; day 11 is 2021-01-01.
ThursdayWeek(d) ==
    LET thursday == (d \div 7) * 7 + 3
        ordinal  == IF thursday < 11 THEN 356 + thursday ELSE thursday - 10
    IN  (ordinal - 1) \div 7 + 1

\* C15: every normalized record has an iso_week in 1..52, the ISO calendar
\* week of its date_completed with week 53 counted as 52, and records
\* completed on the same day have the same iso_week.
C15_IsoWeek ==
    result # NotRun =>
        /\ \A i \in 1..Len(normalized) :
              /\ normalized[i].iso_week \in 1..52
              /\ normalized[i].day = normalized[i].date_completed \div 24
              /\ normalized[i].iso_week =
                    IF ThursdayWeek(normalized[i].day) = 53 THEN 52
                    ELSE ThursdayWeek(normalized[i].day)
        /\ \A i, j \in 1..Len(normalized) :
              normalized[i].day = normalized[j].day =>
                  normalized[i].iso_week = normalized[j].iso_week

\* Two records completed on Monday 2020-12-28, a day of ISO week 53: both are
\* in iso_week 52.
C15_Witness ==
    /\ result # NotRun
    /\ \E i, j \in 1..Len(normalized) :
        /\ i # j
        /\ normalized[i].day = Week53Monday /\ normalized[j].day = Week53Monday
        /\ ThursdayWeek(normalized[i].day) = 53
        /\ normalized[i].iso_week = 52 /\ normalized[j].iso_week = 52

(***************************************************************************)
(* Properties of the time to repair.                                       *)
(***************************************************************************)
\* One row per (iso_week, work_order) of the normalized table, with the
\* ttr_hours of the first row of the work order in the week, absent or not.
FirstSeen ==
    LET heads == SortedSeq(KeepFirst([i \in 1..Len(normalized) |->
                                         WeekOrderKey(normalized[i])]))
    IN  [k \in 1..Len(heads) |->
            [iso_week   |-> normalized[heads[k]].iso_week,
             work_order |-> normalized[heads[k]].work_order,
             ttr_hours  |-> ttr_hours(normalized[heads[k]])]]

\* C16: the ttr_hours of a work order in a week is the one of its first row in
\* input order, absent if that row has no date_reported; MTTR and the closure
\* percentages are computed from these values and later rows of the work
\* order do not change them.
C16_FirstSeenRow ==
    result.status = "returned" =>
        \A w \in iso_weeks :
            result.rows[w].WOVolume > 0 =>
                /\ result.rows[w].MTTR = weekly_mttr(FirstSeen, w)
                /\ result.rows[w].Pct24 = Round(pct_leq(FirstSeen, 24, w))
                /\ result.rows[w].Pct48 = Round(pct_leq(FirstSeen, 48, w))

\* The table handed to compute_metrics with its rows in the order f.
Permuted(f) == [i \in 1..Len(raw) |-> raw[f[i]]]

\* C17: the table compute_metrics returns does not depend on the order of the
\* records: for every permutation of the rows of its input it is the table
\* returned for the input.
C17_OrderIndependent ==
    result.status = "returned" =>
        \A f \in Permutations(1..Len(raw)) :
        \A df \in {normalize_df(Permuted(f))} :
        \A dfa \in {df_a(df)} :
        \A dly \in {Daily(dfa, GroupedAssetDay(dfa))} :
        \A dtw \in {day_to_week(df)} :
        \A wt \in {wo_ttr(df)} :
            \A w \in iso_weeks : ResultRow(df, dly, dtw, wt, w) = result.rows[w]

\* No normalized record of week w has a date_reported, and so none has a
\* ttr_hours.
NoneTimed(w) ==
    \A i \in 1..Len(normalized) :
        normalized[i].iso_week = w => normalized[i].date_reported = NA

\* The work orders of week w in the normalized table.
OrdersOf(w) ==
    {normalized[i].work_order :
        i \in {j \in 1..Len(normalized) : normalized[j].iso_week = w}}

\* C18: a week that has work orders, none of them with a ttr_hours, has MTTR
\* (hrs), % <=24 hrs and % <=48 hrs absent, and compute_metrics raises no
\* error for a table with such a week.
C18_UntimedWeek ==
    result # NotRun =>
        \A w \in iso_weeks :
            OrdersOf(w) # {} /\ NoneTimed(w) =>
                /\ result.status = "returned"
                /\ result.rows[w].WOVolume = Cardinality(OrdersOf(w))
                /\ result.rows[w].MTTR = NA
                /\ result.rows[w].Pct24 = NA
                /\ result.rows[w].Pct48 = NA

\* A week with two work orders without date_reported beside a week whose work
\* order has one.
C18_Witness ==
    /\ result.status = "returned"
    /\ \E w \in iso_weeks :
        /\ Cardinality(OrdersOf(w)) = 2 /\ NoneTimed(w)
        /\ result.rows[w].WOVolume = 2
        /\ result.rows[w].MTTR = NA /\ result.rows[w].Pct48 = NA
    /\ \E w \in iso_weeks :
        OrdersOf(w) # {} /\ ~NoneTimed(w) /\ result.rows[w].MTTR # NA

(***************************************************************************)
(* C19.  Column inference: each of the six target fields is bound to the   *)
(* first column matched when its candidate substrings are scanned in       *)
(* priority order against the lowercased column names, and a field is      *)
(* absent only when none of its candidates matches any column, also when   *)
(* another field's candidates match the same column.                       *)
(***************************************************************************)
FirstMatch(cols, patterns) ==
    LET hits == {h \in (1..Len(patterns)) \X (1..Len(cols)) :
                    Contains(str_lower(cols[h[2]]), patterns[h[1]])}
    IN  IF hits = {} THEN <<>>
        ELSE LET p == Least({h[1] : h \in hits})
             IN  cols[Least({h[2] : h \in {g \in hits : g[1] = p}})]

C19_ColumnInference ==
    result # NotRun =>
        \A k \in 1..Len(mappings) : fields[k] = FirstMatch(columns, mappings[k].pats)

(***************************************************************************)
(* C20.  A merge into a master that has no row for week w completes        *)
(* without error, and the table it writes holds for w the upload's row     *)
(* when the upload has one, and otherwise a row in which only Week is set. *)
(***************************************************************************)
Placeholder(w) == Row(w, NA, NA, NA, NA, NA)

C21_DayToWeek ==
    result # NotRun =>
        /\ day_to_week(normalized) = day_to_week(df_a(normalized))
        /\ daily_active(daily) = Days(normalized)
        /\ \A d \in daily_active(daily) :
              /\ WeekOfDay(day_to_week(normalized), d) \in iso_weeks
              /\ \A i \in 1..Len(normalized) :
                    normalized[i].day = d =>
                        normalized[i].iso_week = WeekOfDay(day_to_week(normalized), d)

\* A table was processed in which every record of some day has a copy with
\* the same four key fields, so that de-duplication removed records of it.
C21_Witness ==
    /\ result # NotRun
    /\ \E d \in daily_active(daily) :
          \A i \in 1..Len(normalized) :
              normalized[i].day = d =>
                  \E j \in 1..Len(normalized) :
                      j # i /\ RecordKey(normalized[j]) = RecordKey(normalized[i])
    /\ Len(df_a(normalized)) < Len(normalized)

(***************************************************************************)
(* C22.  With two sessions, the master a session merges into is the master *)
(* as it is when the session writes: the read and the write of a merge are *)
(* not interleaved with the other session's write, and a week that has     *)
(* WO Volume > 0 in the master file still has it after a session's save.   *)
(***************************************************************************)
Writes(s) == sessions[s].pc = "handler" /\ sessions'[s].pc = "idle"

C22_SingleWriter ==
    [][\A s \in SessionIds :
          Writes(s) =>
              /\ sessions[s].master_df = ReadCsv(master)
              /\ \A w \in Weeks :
                    HasVolume(ReadCsv(master).rows, w) => HasVolume(ReadCsv(master').rows, w)]_vars

(***************************************************************************)
(* C23.  Every day of the daily table has daily_completions >= 1 and       *)
(* 2 * returned_bots <= daily_completions, so its rate is between 0 and 50 *)
(* percent, and every Weekly Return % of the table returned is between 0   *)
(* and 50.                                                                 *)
(***************************************************************************)
C23_ReturnRateBound ==
    /\ result # NotRun =>
          \A d \in DOMAIN daily :
              /\ daily[d].daily_completions >= 1
              /\ daily[d].returned_bots >= 0
              /\ 2 * daily[d].returned_bots <= daily[d].daily_completions
    /\ result.status = "returned" =>
          \A w \in iso_weeks :
              result.rows[w].WeeklyReturn >= 0 /\ result.rows[w].WeeklyReturn <= 5000

\* A table was returned with a week at the bound: a day on which the only
\* asset was worked on by two technicians (two completions, one return).
C23_Witness ==
    /\ result.status = "returned"
    /\ \E d \in DOMAIN daily :
          daily[d].daily_completions = 2 /\ daily[d].returned_bots = 1
    /\ \E w \in iso_weeks : result.rows[w].WeeklyReturn = 5000

(***************************************************************************)
(* C24.  In df_a an asset with two or more technicians on a day has more   *)
(* than one occurrence, so is_return is 'techs >= 2'; and the table        *)
(* returned for the input with an exact copy of one of its rows appended   *)
(* is the table returned for the input.                                    *)
(***************************************************************************)
WithCopy(i) == Append(raw, raw[i])

C24_CopyChangesNothing ==
    /\ result # NotRun =>
          \A key \in DOMAIN grouped_asset_day :
              /\ grouped_asset_day[key].techs >= 2 => grouped_asset_day[key].occurrences > 1
              /\ grouped_asset_day[key].is_return <=> grouped_asset_day[key].techs >= 2
    /\ result.status = "returned" =>
          \A i \in 1..Len(raw) :
          \A df \in {normalize_df(WithCopy(i))} :
          \A dfa \in {df_a(df)} :
          \A dly \in {Daily(dfa, GroupedAssetDay(dfa))} :
          \A dtw \in {day_to_week(df)} :
          \A wt \in {wo_ttr(df)} :
              \A w \in iso_weeks : ResultRow(df, dly, dtw, wt, w) = result.rows[w]

\* A table was returned for an input that holds a row twice, the copy last,
\* and in which an asset was worked on by two technicians on one day.
C24_Witness ==
    /\ result.status = "returned"
    /\ Len(raw) >= 2
    /\ \E i \in 1..(Len(raw) - 1) :
          raw[i] = raw[Len(raw)] /\ \E j \in 1..Len(normalized) : normalized[j].work_order = raw[i].work_order
    /\ \E key \in DOMAIN grouped_asset_day : grouped_asset_day[key].techs >= 2

(***************************************************************************)
(* C25.  Monotone master history: a save or merge into an existing master  *)
(* leaves every week that has WO Volume > 0 in the master with             *)
(* WO Volume > 0, so that over a sequence of merges an active week stays   *)
(* active.  (Clearing the history deletes the master and starts a new      *)
(* one.)                                                                   *)
(***************************************************************************)
C25_MonotoneHistory ==
    [][master.exists /\ master'.exists =>
          \A w \in Weeks :
              HasVolume(ReadCsv(master).rows, w) => HasVolume(ReadCsv(master').rows, w)]_vars

\* A merge into a master with an active week for which the upload has
\* WO Volume 0 was written, and the week is still active.
C25_Witness ==
    /\ last \in {"merge", "apply"}
    /\ \E w \in Weeks :
        /\ HasVolume(master_df.rows, w)
        /\ ZeroVolume(latest_df.rows, w)
        /\ HasVolume(Saved, w)
    /\ \E w \in Weeks : ~HasVolume(master_df.rows, w) /\ HasVolume(Saved, w)

(***************************************************************************)
(* C26.  Re-merge idempotence: after the merge of a dense upload I into a  *)
(* dense master M with overwrite_weeks from the overlap set of M and I,    *)
(* every week with WO Volume > 0 in I is in the overlap set of the result  *)
(* R and I, and merging I into R again with nothing selected writes R.     *)
(***************************************************************************)
\* The merge the script runs for master rows R and upload rows I when no week
\* is selected: the branch of line 716 or that of line 766.
Remerge(R, I) ==
    LET overlapping == Overlapping(Frame(R), Frame(I))
    IN  IF overlapping = {} THEN MergeNoOverlaps(R, I)
        ELSE ApplyMerge(R, I, overlapping, {})

Dense(rows) == Len(rows) = NumWeeks /\ \A i \in 1..Len(rows) : rows[i].Week = i

C26_RemergeIdempotent ==
    (/\ Merged
     /\ Dense(master_df.rows) /\ Dense(latest_df.rows)
     /\ overwrite_weeks \subseteq Overlapping(master_df, latest_df))
        => /\ NonZero(latest_df.rows) \subseteq Overlapping(Frame(Saved), latest_df)
           /\ \A again \in {Remerge(Saved, latest_df.rows)} :
                 ~again.err /\ ToCsv(again.rows) = master

\* An overlap merge was written in which a selected week took the upload's
\* row, an unselected overlapping week kept a master row that differs from the
\* upload's, or a week new to the master was adopted.
C26_Witness ==
    /\ last = "apply"
    /\ overwrite_weeks # {}
    /\ Dense(master_df.rows) /\ Dense(latest_df.rows)
    /\ \E w \in Weeks \ overwrite_weeks :
          \/ InOverlap(w) /\ ~SameRow(master_df.rows, latest_df.rows, w)
          \/ ~HasVolume(master_df.rows, w) /\ HasVolume(latest_df.rows, w)

====
